---- MODULE Spec2Model ----
(***************************************************************************)
(* The S3 source of src/dataflow/src/source/s3.rs: the bucket scanner      *)
(* task (read_bucket_task, download_object), the bounded channel between   *)
(* it and the poll-driven reader (S3SourceInfo), and the prefix extractor  *)
(* find_prefix.                                                            *)
(*                                                                         *)
(* Strings are sequences of one-character strings.  An Option<T> is a      *)
(* sequence of length at most one: <<>> is None, <<v>> is Some(v).         *)
(***************************************************************************)
EXTENDS Integers, Sequences, FiniteSets, TLC

VARIABLES
    \* --- configuration, fixed at construction
    is_activated_reader, \* S3SourceInfo.is_activated_reader (`active`)
    glob,                \* Option: the pattern text of s3_conn.pattern
    \* --- read_bucket_task
    pc,                  \* where the scanner task is
    prefix,              \* Option: find_prefix(glob), once computed
    continuation_token,  \* Option: the listing cursor
    allowed_errors,      \* the retry budget
    keys,                \* matching keys of the current page not yet fetched
    next_token,          \* response.next_continuation_token of the current page
    sending,             \* messages download_object still has to push
    activate,            \* download_object's `activate`
    \* --- the channel
    chan,                \* messages in the sync_channel
    rx_alive,            \* the Receiver (the reader) has not been dropped
    \* --- S3SourceInfo
    buffer,              \* Option<SourceMessage>
    offset,              \* BucketOffset
    fatal,               \* the reader thread panicked
    last,                \* the last call made on the reader and its result
    \* --- ConsistencyInfo
    last_offset,         \* partition_metadata[S3].offset
    \* --- history
    pushed,              \* every message pushed into the channel, in order
    taken,               \* every message the reader took from the channel
    fetched,             \* every get_object call: key and outcome
    wakes,               \* calls of activator.activate()
    listed,              \* the cursor of every list_objects_v2 call that succeeded
    failures,            \* failed list_objects_v2 calls since the last success
    \* --- find_prefix and the matcher on their own
    key,                 \* Option: the key given to the matcher
    matched,             \* Option: whether the matcher accepted it
    \* --- activate_source_timestamping
    timestamp_data_updates,     \* the registry: source id -> Option of update
    timestamp_metadata_channel, \* the metadata updates pushed, in order
    activation,          \* the last activate_source_timestamping call
    \* --- download_object on one body
    body                 \* Option: the bytes read_to_end gave

vars == << is_activated_reader, glob, pc, prefix, continuation_token,
           allowed_errors, keys, next_token, sending, activate, chan,
           rx_alive, buffer, offset, fatal, last, last_offset, pushed,
           taken, fetched, wakes, listed, failures, key, matched,
           timestamp_data_updates, timestamp_metadata_channel, activation,
           body >>

scannerVars == << pc, prefix, continuation_token, allowed_errors, keys,
                  next_token, sending, activate >>
readerVars == << buffer, offset, fatal, last >>
histVars == << pushed, taken, fetched, wakes, listed, failures >>
pureVars == << key, matched >>
timestampVars == << timestamp_data_updates, timestamp_metadata_channel,
                   activation >>

(***************************************************************************)
(* Bounds of the model.                                                    *)
(***************************************************************************)
\* Capacity of the channel.  The code uses 10000; the model scales it down
\* so that the scanner does reach a full channel.
ChanCap == 2
\* Keys per listing page (the backend's max-keys).
MaxKeys == 2
\* Longest pattern and longest key given to find_prefix and the matcher.
MaxPatLen == 3
MaxKeyLen == 2
\* Source instances known to the worker, and the metadata updates the
\* timestamping channel is followed for.
MaxSources == 2
MaxUpdates == 3
\* Longest object body given to the splitting on its own.
MaxBodyLen == 3

(***************************************************************************)
(* Program constants.                                                      *)
(***************************************************************************)
\* let mut allowed_errors = 10;
AllowedErrors == 10

(***************************************************************************)
(* Sequences.                                                              *)
(***************************************************************************)
None == << >>
Some(v) == << v >>
IsSome(o) == Len(o) = 1
Unwrap(o) == o[1]

Min(a, b) == IF a <= b THEN a ELSE b

\* All sequences over S of length exactly n, and of length at most n.
RECURSIVE SeqsOfLen(_, _)
SeqsOfLen(S, n) ==
    IF n = 0 THEN { << >> }
    ELSE { << c >> \o s : c \in S, s \in SeqsOfLen(S, n - 1) }

SeqsUpTo(S, n) == UNION { SeqsOfLen(S, i) : i \in 0..n }

\* str::starts_with
StartsWith(s, p) == Len(p) <= Len(s) /\ SubSeq(s, 1, Len(p)) = p

\* s is a prefix of t
IsPrefix(s, t) == StartsWith(t, s)

(***************************************************************************)
(* find_prefix: take_while with the state `escaped`, then filter with the  *)
(* state `escaped_filter`.                                                 *)
(***************************************************************************)
\* The closure given to take_while, folded over the characters: it keeps c
\* and goes on, or stops at c.
RECURSIVE take_while(_, _)
take_while(s, escaped) ==
    IF s = << >> THEN << >>
    ELSE LET c == Head(s) IN
         IF c = "*" /\ ~escaped THEN << >>
         ELSE IF c = "[" /\ ~escaped THEN << >>
         ELSE IF c = "{" /\ ~escaped THEN << >>
         ELSE IF c = "\\" /\ ~escaped THEN << c >> \o take_while(Tail(s), TRUE)
         ELSE IF ~escaped THEN << c >> \o take_while(Tail(s), FALSE)
         ELSE << c >> \o take_while(Tail(s), FALSE)

\* The closure given to filter, folded over the characters take_while let
\* through.
RECURSIVE filter(_, _)
filter(s, escaped_filter) ==
    IF s = << >> THEN << >>
    ELSE LET c == Head(s) IN
         IF escaped_filter THEN << c >> \o filter(Tail(s), FALSE)
         ELSE IF c = "\\" THEN filter(Tail(s), TRUE)
         ELSE << c >> \o filter(Tail(s), FALSE)

\* The backslashes are left in the prefix.
find_prefix_keeps_backslash(g) == take_while(g, FALSE)

find_prefix(g) == filter(take_while(g, FALSE), FALSE)

(***************************************************************************)
(* The compiled matcher (globset, GlobMatcher::is_match) on a pattern      *)
(* text: `*` any run of characters, `?` any one character, `[..]` one of   *)
(* the listed characters, `{..,..}` one of the branches, backslash makes   *)
(* the next character literal.  The match is of the whole key.             *)
(***************************************************************************)
\* The index of the `]` closing the class that opens at p[i], 0 if there
\* is none.  A `]` right after the `[` is a member of the class.
ClassEnd(p, i) ==
    LET js == { j \in (i + 2)..Len(p) : p[j] = "]" }
    IN  IF js = {} THEN 0 ELSE CHOOSE j \in js : \A j2 \in js : j <= j2

\* The branches of the alternation that opens at p[q - 1], scanning from q:
\* start is where the current branch begins, acc the branches before it.
RECURSIVE AltScan(_, _, _, _)
AltScan(p, q, start, acc) ==
    IF q > Len(p) THEN [ok |-> FALSE, branches |-> << >>, end |-> 0]
    ELSE IF p[q] = "\\" THEN
        IF q + 1 > Len(p) THEN [ok |-> FALSE, branches |-> << >>, end |-> 0]
        ELSE AltScan(p, q + 2, start, acc)
    ELSE IF p[q] = "[" THEN
        IF ClassEnd(p, q) = 0 THEN [ok |-> FALSE, branches |-> << >>, end |-> 0]
        ELSE AltScan(p, ClassEnd(p, q) + 1, start, acc)
    ELSE IF p[q] = "{" THEN [ok |-> FALSE, branches |-> << >>, end |-> 0]
    ELSE IF p[q] = "," THEN
        AltScan(p, q + 1, q + 1, Append(acc, SubSeq(p, start, q - 1)))
    ELSE IF p[q] = "}" THEN
        [ok |-> TRUE, branches |-> Append(acc, SubSeq(p, start, q - 1)), end |-> q]
    ELSE AltScan(p, q + 1, start, acc)

\* Glob::new succeeds on p.
RECURSIVE GlobValid(_)
GlobValid(p) ==
    IF p = << >> THEN TRUE
    ELSE IF Head(p) = "\\" THEN Len(p) >= 2 /\ GlobValid(SubSeq(p, 3, Len(p)))
    ELSE IF Head(p) = "[" THEN
        /\ ClassEnd(p, 1) # 0
        /\ GlobValid(SubSeq(p, ClassEnd(p, 1) + 1, Len(p)))
    ELSE IF Head(p) = "{" THEN
        LET a == AltScan(p, 2, 2, << >>) IN
        /\ a.ok
        /\ GlobValid(SubSeq(p, a.end + 1, Len(p)))
    ELSE IF Head(p) = "}" THEN FALSE
    ELSE GlobValid(Tail(p))

\* GlobMatcher::is_match, for a pattern Glob::new accepts.
RECURSIVE is_match(_, _)
is_match(p, k) ==
    IF p = << >> THEN k = << >>
    ELSE IF Head(p) = "\\" THEN
        /\ k # << >>
        /\ Head(k) = p[2]
        /\ is_match(SubSeq(p, 3, Len(p)), Tail(k))
    ELSE IF Head(p) = "*" THEN
        \E i \in 0..Len(k) : is_match(Tail(p), SubSeq(k, i + 1, Len(k)))
    ELSE IF Head(p) = "?" THEN
        k # << >> /\ is_match(Tail(p), Tail(k))
    ELSE IF Head(p) = "[" THEN
        LET j == ClassEnd(p, 1) IN
        /\ k # << >>
        /\ Head(k) \in { p[i] : i \in 2..(j - 1) }
        /\ is_match(SubSeq(p, j + 1, Len(p)), Tail(k))
    ELSE IF Head(p) = "{" THEN
        LET a == AltScan(p, 2, 2, << >>) IN
        \E b \in 1..Len(a.branches) :
            is_match(a.branches[b] \o SubSeq(p, a.end + 1, Len(p)), k)
    ELSE
        /\ k # << >>
        /\ Head(k) = Head(p)
        /\ is_match(Tail(p), Tail(k))

\* glob.map(|g| g.is_match(k)).unwrap_or(true)
KeyMatches(g, k) == IF IsSome(g) THEN is_match(Unwrap(g), k) ELSE TRUE

(***************************************************************************)
(* The bucket and the storage backend.                                     *)
(***************************************************************************)
\* The keys of the bucket in the backend's (lexical) order, and the bytes
\* of each object.
K1 == << "a", "1" >>
K2 == << "a", "2" >>
K3 == << "b", "1" >>
BucketKeys == << K1, K2, K3 >>

NL == "\n"
Body(k) ==
    IF k = K1 THEN << "x", NL, "y" >>
    ELSE IF k = K2 THEN << >>
    ELSE << "z", NL >>

\* ListObjectsV2: the keys that start with the prefix, a page of at most
\* MaxKeys of them from the cursor on, and the cursor of the next page if
\* keys remain.  A cursor is the index of the page's first key.
ListObjectsV2(pfx, token) ==
    LET ks == SelectSeq(BucketKeys,
                        LAMBDA k : IF IsSome(pfx) THEN StartsWith(k, Unwrap(pfx))
                                   ELSE TRUE)
        from == IF IsSome(token) THEN Unwrap(token) ELSE 1
        to == Min(from + MaxKeys - 1, Len(ks))
    IN  [contents |-> SubSeq(ks, from, to),
         next_continuation_token |-> IF to < Len(ks) THEN Some(to + 1) ELSE None]

\* An empty run after the last newline byte is not a record.
RECURSIVE split_skips_empty_tail(_, _)
split_skips_empty_tail(buf, cur) ==
    IF buf = << >> THEN (IF cur = << >> THEN << >> ELSE << cur >>)
    ELSE IF Head(buf) = NL
         THEN << cur >> \o split_skips_empty_tail(Tail(buf), << >>)
    ELSE split_skips_empty_tail(Tail(buf), Append(cur, Head(buf)))

\* buf.split(|b| *b == b'\n'): the runs between newline bytes, one more
\* than there are newline bytes.
RECURSIVE split(_, _)
split(buf, cur) ==
    IF buf = << >> THEN << cur >>
    ELSE IF Head(buf) = NL THEN << cur >> \o split(Tail(buf), << >>)
    ELSE split(Tail(buf), Append(cur, Head(buf)))

Lines(buf) == split(buf, << >>)

(***************************************************************************)
(* Messages.                                                               *)
(***************************************************************************)
\* Result<Vec<u8>, Error>, as the channel carries it.
OkMsg(line) == [ok |-> TRUE, rec |-> line, err |-> ""]
ErrMsg(e) == [ok |-> FALSE, rec |-> << >>, err |-> e]

\* SourceMessage { partition: S3, offset, upstream_time_millis: None,
\*                 key: None, payload: Some(record) }
SourceMessage(o, record) == [offset |-> o, payload |-> record]

\* What a call on the reader returned.
Call(op, res, msg, err, arg) ==
    [op |-> op, res |-> res, msg |-> msg, err |-> err, arg |-> arg]
NoCall == Call("none", "", None, "", 0)

\* The patterns a source is constructed with.
Globs == { None, Some(<< "a", "*", "1" >>), Some(<< "a", "?" >>) }

(***************************************************************************)
(* Timestamping: the registry of timestamp data updates and the channel of *)
(* metadata updates, both shared with the timestamper.                     *)
(***************************************************************************)
\* SourceInstanceId
Ids == 1..MaxSources

\* Consistency::RealTime, Consistency::BringYourOwn(_)
Consistencies == { "RealTime", "BringYourOwn" }

\* TimestampDataUpdate::RealTime(n) and TimestampDataUpdate::BringYourOwn(_)
RealTime(n) == [kind |-> "RealTime", partitions |-> n]
BringYourOwn == [kind |-> "BringYourOwn", partitions |-> 0]

\* TimestampMetadataUpdate::StartTimestamping(id)
StartTimestamping(id) == [kind |-> "StartTimestamping", id |-> id]

\* A call of activate_source_timestamping and the Option it returned; the
\* handle returned is the metadata channel it was given.
Activation(id, consistency, active, returned) ==
    [op |-> "activate_source_timestamping", id |-> id,
     consistency |-> consistency, active |-> active, returned |-> returned]
NoActivation ==
    [op |-> "none", id |-> 0, consistency |-> "", active |-> FALSE,
     returned |-> None]

\* Nothing is registered and nothing was pushed for the timestamper.
Unregistered ==
    /\ timestamp_data_updates = [i \in Ids |-> None]
    /\ timestamp_metadata_channel = << >>
    /\ activation = NoActivation

(***************************************************************************)
(* S3SourceInfo::new                                                       *)
(***************************************************************************)
new(active, pattern) ==
    /\ is_activated_reader = active
    /\ glob = pattern
    \* active: the task is spawned with the sender; otherwise _tx is dropped
    \* when the else block ends and no task exists
    /\ pc = IF active THEN "client" ELSE "none"
    /\ prefix = None
    /\ continuation_token = None
    /\ allowed_errors = AllowedErrors
    /\ keys = << >>
    /\ next_token = None
    /\ sending = << >>
    /\ activate = FALSE
    /\ chan = << >>
    /\ rx_alive = TRUE
    /\ buffer = None
    /\ offset = 0
    /\ fatal = FALSE
    /\ last = NoCall
    \* consistency_info.update_partition_metadata(PartitionId::S3)
    /\ last_offset = 0
    /\ pushed = << >>
    /\ taken = << >>
    /\ fetched = << >>
    /\ wakes = 0
    /\ listed = << >>
    /\ failures = 0
    /\ key = None
    /\ matched = None

Init ==
    /\ \E active \in BOOLEAN, pattern \in Globs : new(active, pattern)
    /\ Unregistered
    /\ body = None

(***************************************************************************)
(* The channel (std::sync::mpsc::sync_channel).                            *)
(***************************************************************************)
\* The sender exists while the task runs.
tx_alive == pc \notin { "none", "done" }

\* A send waits for room whether or not the receiver still exists.
CanSend_needs_receiver == rx_alive /\ Len(chan) < ChanCap

\* A send never waits: the channel takes any number of messages.
CanSend_unbounded == TRUE

\* SyncSender::send returns at once with an error when the receiver is gone
\* and otherwise waits for room.
CanSend == ~rx_alive \/ Len(chan) < ChanCap

\* tx.send(m): the channel and the history after it.
Send(m) ==
    IF rx_alive
    THEN chan' = Append(chan, m) /\ pushed' = Append(pushed, m)
    ELSE UNCHANGED << chan, pushed >>

(***************************************************************************)
(* read_bucket_task                                                        *)
(***************************************************************************)
\* aws_util::s3::client(aws_info) succeeds; the prefix is computed.
ClientOk ==
    /\ pc = "client"
    /\ prefix' = IF IsSome(glob) THEN Some(find_prefix(Unwrap(glob))) ELSE None
    /\ pc' = "list"
    /\ UNCHANGED << continuation_token, allowed_errors, keys, next_token,
                    sending, activate >>
    /\ UNCHANGED << is_activated_reader, glob, chan, rx_alive, readerVars,
                    last_offset, histVars, pureVars,
                    timestampVars, body >>

\* The client is built again after the failure was reported.
ClientErr_retries ==
    /\ pc = "client"
    /\ CanSend
    /\ Send(ErrMsg("Unable to create s3 client"))
    /\ pc' = "client"
    /\ UNCHANGED << prefix, continuation_token, allowed_errors, keys,
                    next_token, sending, activate >>
    /\ UNCHANGED << is_activated_reader, glob, rx_alive, readerVars,
                    last_offset, taken, fetched, wakes, listed, failures,
                    pureVars, timestampVars, body >>

\* aws_util::s3::client(aws_info) fails: one failure message, and the task
\* returns.
ClientErr ==
    /\ pc = "client"
    /\ CanSend
    /\ Send(ErrMsg("Unable to create s3 client"))
    /\ pc' = "done"
    /\ UNCHANGED << prefix, continuation_token, allowed_errors, keys,
                    next_token, sending, activate >>
    /\ UNCHANGED << is_activated_reader, glob, rx_alive, readerVars,
                    last_offset, taken, fetched, wakes, listed, failures,
                    pureVars,
                    timestampVars, body >>

\* The keys of a page are queued last first.
ListOk_reversed ==
    /\ pc = "list"
    /\ LET response == ListObjectsV2(prefix, continuation_token)
           ks == SelectSeq(response.contents, LAMBDA k : KeyMatches(glob, k))
       IN
       /\ allowed_errors' = AllowedErrors
       /\ keys' = [i \in 1..Len(ks) |-> ks[Len(ks) + 1 - i]]
       /\ next_token' = response.next_continuation_token
    /\ listed' = Append(listed, continuation_token)
    /\ failures' = 0
    /\ pc' = "keys"
    /\ UNCHANGED << prefix, continuation_token, sending, activate >>
    /\ UNCHANGED << is_activated_reader, glob, chan, rx_alive, readerVars,
                    last_offset, pushed, taken, fetched, wakes, pureVars,
                    timestampVars, body >>

\* The budget is not set back: it counts all failures of the scan.
ListOk_keeps_budget ==
    /\ pc = "list"
    /\ LET response == ListObjectsV2(prefix, continuation_token) IN
       /\ keys' = SelectSeq(response.contents, LAMBDA k : KeyMatches(glob, k))
       /\ next_token' = response.next_continuation_token
    /\ listed' = Append(listed, continuation_token)
    /\ failures' = 0
    /\ pc' = "keys"
    /\ UNCHANGED << prefix, continuation_token, allowed_errors, sending,
                    activate >>
    /\ UNCHANGED << is_activated_reader, glob, chan, rx_alive, readerVars,
                    last_offset, pushed, taken, fetched, wakes, pureVars,
                    timestampVars, body >>

\* list_objects_v2 succeeds: the budget is reset and the matching keys of
\* the page are queued for download.
ListOk ==
    /\ pc = "list"
    /\ LET response == ListObjectsV2(prefix, continuation_token) IN
       /\ allowed_errors' = AllowedErrors
       /\ keys' = SelectSeq(response.contents, LAMBDA k : KeyMatches(glob, k))
       /\ next_token' = response.next_continuation_token
    /\ listed' = Append(listed, continuation_token)
    /\ failures' = 0
    /\ pc' = "keys"
    /\ UNCHANGED << prefix, continuation_token, sending, activate >>
    /\ UNCHANGED << is_activated_reader, glob, chan, rx_alive, readerVars,
                    last_offset, pushed, taken, fetched, wakes, pureVars,
                    timestampVars, body >>

\* The budget is never used up: the call is retried for ever.
ListErr_retries_forever ==
    /\ pc = "list"
    /\ pc' = "sleep"
    /\ UNCHANGED << prefix, continuation_token, allowed_errors, keys,
                    next_token, sending, activate >>
    /\ UNCHANGED << is_activated_reader, glob, chan, rx_alive, readerVars,
                    last_offset, histVars, pureVars,
                    timestampVars, body >>

\* list_objects_v2 fails: the budget is decremented; at zero the task ends,
\* otherwise it sleeps.
ListErr ==
    /\ pc = "list"
    /\ allowed_errors' = allowed_errors - 1
    /\ failures' = failures + 1
    /\ pc' = IF allowed_errors' = 0 THEN "done" ELSE "sleep"
    /\ UNCHANGED << prefix, continuation_token, keys, next_token, sending,
                    activate >>
    /\ UNCHANGED << is_activated_reader, glob, chan, rx_alive, readerVars,
                    last_offset, pushed, taken, fetched, wakes, listed,
                    pureVars,
                    timestampVars, body >>

\* time::sleep(Duration::from_secs(1)) is over.
Sleep ==
    /\ pc = "sleep"
    /\ pc' = "list"
    /\ UNCHANGED << prefix, continuation_token, allowed_errors, keys,
                    next_token, sending, activate >>
    /\ UNCHANGED << is_activated_reader, glob, chan, rx_alive, readerVars,
                    last_offset, histVars, pureVars,
                    timestampVars, body >>

\* The keys of the page are done: the task ends on the last page and
\* otherwise moves the cursor.
EndPage ==
    /\ pc = "keys"
    /\ keys = << >>
    /\ IF next_token = None
       THEN pc' = "done" /\ UNCHANGED continuation_token
       ELSE pc' = "list" /\ continuation_token' = next_token
    /\ UNCHANGED << prefix, allowed_errors, keys, next_token, sending,
                    activate >>
    /\ UNCHANGED << is_activated_reader, glob, chan, rx_alive, readerVars,
                    last_offset, histVars, pureVars,
                    timestampVars, body >>

(***************************************************************************)
(* download_object                                                         *)
(***************************************************************************)
\* What get_object and read_to_end can come to.
Outcomes == { "ok", "get_err", "read_err", "no_body" }

\* get_object for the next key, and the read of its body.
GetObject(outcome) ==
    /\ pc = "keys"
    /\ keys # << >>
    /\ LET k == Head(keys)
           buf == Body(k)
       IN
       /\ keys' = Tail(keys)
       /\ fetched' = Append(fetched, [key |-> k, outcome |-> outcome])
       /\ CASE outcome = "get_err" ->
                 /\ sending' = << ErrMsg("Unable to GET object") >>
                 /\ activate' = FALSE
                 /\ pc' = "send_err"
            [] outcome = "read_err" ->
                 /\ sending' = << ErrMsg("Unable to read object") >>
                 /\ activate' = FALSE
                 /\ pc' = "send_err"
            [] outcome = "no_body" ->
                 /\ sending' = << >>
                 /\ activate' = FALSE
                 /\ pc' = "keys"
            [] outcome = "ok" ->
                 /\ sending' = [i \in 1..Len(Lines(buf)) |-> OkMsg(Lines(buf)[i])]
                 /\ activate' = (buf # << >>)
                 /\ pc' = "send_lines"
    /\ UNCHANGED << prefix, continuation_token, allowed_errors, next_token >>
    /\ UNCHANGED << is_activated_reader, glob, chan, rx_alive, readerVars,
                    last_offset, pushed, taken, wakes, listed, failures,
                    pureVars,
                    timestampVars, body >>

\* The task ends after reporting the failure.
SendErr_ends_scan ==
    /\ pc = "send_err"
    /\ CanSend
    /\ Send(Head(sending))
    /\ sending' = << >>
    /\ pc' = "done"
    /\ UNCHANGED << prefix, continuation_token, allowed_errors, keys,
                    next_token, activate >>
    /\ UNCHANGED << is_activated_reader, glob, rx_alive, readerVars,
                    last_offset, taken, fetched, wakes, listed, failures,
                    pureVars,
                    timestampVars, body >>

\* tx.send(Err(..)) of a failed fetch or read; a send error is only logged.
SendErr ==
    /\ pc = "send_err"
    /\ CanSend
    /\ Send(Head(sending))
    /\ sending' = << >>
    /\ pc' = "keys"
    /\ UNCHANGED << prefix, continuation_token, allowed_errors, keys,
                    next_token, activate >>
    /\ UNCHANGED << is_activated_reader, glob, rx_alive, readerVars,
                    last_offset, taken, fetched, wakes, listed, failures,
                    pureVars,
                    timestampVars, body >>

\* One turn of the loop over the lines: tx.send(Ok(line)); a send error
\* breaks the loop.  After the loop the consumer is activated if the body
\* was not empty.
SendLine ==
    /\ pc = "send_lines"
    /\ CanSend
    /\ Send(Head(sending))
    /\ LET rest == IF rx_alive THEN Tail(sending) ELSE << >> IN
       /\ sending' = rest
       /\ IF rest = << >>
          THEN /\ wakes' = IF activate THEN wakes + 1 ELSE wakes
               /\ pc' = "keys"
          ELSE UNCHANGED << wakes, pc >>
    /\ UNCHANGED << prefix, continuation_token, allowed_errors, keys,
                    next_token, activate >>
    /\ UNCHANGED << is_activated_reader, glob, rx_alive, readerVars,
                    last_offset, taken, fetched, listed, failures, pureVars,
                    timestampVars, body >>

Scanner ==
    \/ ClientOk
    \/ ClientErr
    \/ ListOk
    \/ ListErr
    \/ Sleep
    \/ EndPage
    \/ \E outcome \in Outcomes : GetObject(outcome)
    \/ SendErr
    \/ SendLine

(***************************************************************************)
(* S3SourceInfo: the reader.                                               *)
(***************************************************************************)
\* The reader exists and its thread has not panicked.
ReaderRuns == rx_alive /\ ~fatal

\* The disconnection is reported before what is still queued.
try_recv_disconnected_first ==
    IF ~tx_alive THEN "Disconnected"
    ELSE IF chan # << >> THEN "Ok"
    ELSE "Empty"

\* Receiver::try_recv: a message if one is queued, else Disconnected if the
\* sender is gone, else Empty.
try_recv ==
    IF chan # << >> THEN "Ok"
    ELSE IF ~tx_alive THEN "Disconnected"
    ELSE "Empty"

\* The re-delivered message is counted as a new one.
TakeBuffer_counts ==
    /\ buffer' = None
    /\ offset' = offset + 1
    /\ last' = Call("poll", "Ready",
                    Some(SourceMessage(offset', Unwrap(buffer).payload)), "", 0)
    /\ UNCHANGED << chan, taken >>

\* if let Some(message) = self.buffer.take() { return Ok(Ready(message)) }
TakeBuffer ==
    /\ buffer' = None
    /\ last' = Call("poll", "Ready", buffer, "", 0)
    /\ UNCHANGED << offset, chan, taken >>

\* The message is tagged with the offset before the increment.
RecvRecord_stale_offset ==
    /\ chan' = Tail(chan)
    /\ offset' = offset + 1
    /\ last' = Call("poll", "Ready",
                    Some(SourceMessage(offset, Head(chan).rec)), "", 0)
    /\ taken' = Append(taken, [ok |-> TRUE, rec |-> Head(chan).rec,
                               err |-> "", offset |-> Unwrap(last'.msg).offset])

\* Ok(Ok(record)): the offset is incremented and tags the message.
RecvRecord ==
    /\ chan' = Tail(chan)
    /\ offset' = offset + 1
    /\ last' = Call("poll", "Ready",
                    Some(SourceMessage(offset', Head(chan).rec)), "", 0)
    /\ taken' = Append(taken, [ok |-> TRUE, rec |-> Head(chan).rec,
                               err |-> "", offset |-> Unwrap(last'.msg).offset])

\* The failure takes an offset as a record does.
RecvFailure_counts ==
    /\ chan' = Tail(chan)
    /\ last' = Call("poll", "Err", None, Head(chan).err, 0)
    /\ taken' = Append(taken, [ok |-> FALSE, rec |-> << >>,
                               err |-> Head(chan).err, offset |-> 0])
    /\ offset' = offset + 1

\* Ok(Err(e)): the failure is the result of the call.
RecvFailure ==
    /\ chan' = Tail(chan)
    /\ last' = Call("poll", "Err", None, Head(chan).err, 0)
    /\ taken' = Append(taken, [ok |-> FALSE, rec |-> << >>,
                               err |-> Head(chan).err, offset |-> 0])
    /\ UNCHANGED offset

\* Err(TryRecvError::Empty)
RecvEmpty ==
    /\ last' = Call("poll", "Pending", None, "", 0)
    /\ UNCHANGED << chan, offset, taken >>

\* Err(TryRecvError::Disconnected)
RecvDisconnected ==
    /\ last' = Call("poll", "Finished", None, "", 0)
    /\ UNCHANGED << chan, offset, taken >>

\* get_next_message
get_next_message ==
    /\ ReaderRuns
    /\ IF IsSome(buffer)
       THEN TakeBuffer
       ELSE /\ UNCHANGED buffer
            /\ CASE try_recv = "Ok" /\ Head(chan).ok -> RecvRecord
                 [] try_recv = "Ok" /\ ~Head(chan).ok -> RecvFailure
                 [] try_recv = "Empty" -> RecvEmpty
                 [] try_recv = "Disconnected" -> RecvDisconnected
    /\ UNCHANGED fatal
    /\ UNCHANGED << is_activated_reader, glob, scannerVars, rx_alive,
                    last_offset, pushed, fetched, wakes, listed, failures,
                    pureVars,
                    timestampVars, body >>

\* The messages a caller can hand back: those it was given.
Delivered ==
    { SourceMessage(taken[i].offset, taken[i].rec) :
        i \in { j \in 1..Len(taken) : taken[j].ok } }

\* The held message is replaced instead of the panic.
buffer_message_overwrites(message) ==
    /\ ReaderRuns
    /\ buffer' = Some(message)
    /\ last' = Call("buffer", "Ok", Some(message), "", 0)
    /\ UNCHANGED << fatal, offset >>
    /\ UNCHANGED << is_activated_reader, glob, scannerVars, chan, rx_alive,
                    last_offset, histVars, pureVars,
                    timestampVars, body >>

\* buffer_message
buffer_message(message) ==
    /\ ReaderRuns
    /\ IF IsSome(buffer)
       THEN \* panic!("Internal error: S3 buffer is not empty ...")
            /\ fatal' = TRUE
            /\ last' = Call("buffer", "Panic", Some(message), "", 0)
            /\ UNCHANGED buffer
       ELSE /\ buffer' = Some(message)
            /\ last' = Call("buffer", "Ok", Some(message), "", 0)
            /\ UNCHANGED fatal
    /\ UNCHANGED offset
    /\ UNCHANGED << is_activated_reader, glob, scannerVars, chan, rx_alive,
                    last_offset, histVars, pureVars,
                    timestampVars, body >>

\* The elected-scanner flag is not looked at.
can_close_timestamp_unchecked(o) == last_offset >= o

\* The comparison is strict.
can_close_timestamp_strict(o) ==
    IF ~is_activated_reader THEN TRUE
    ELSE last_offset > o

\* can_close_timestamp, for PartitionId::S3
can_close_timestamp(o) ==
    IF ~is_activated_reader THEN TRUE
    ELSE last_offset >= o

\* The offsets can_close_timestamp is asked about.
Offsets == 0..(offset + 1)

CanCloseTimestamp(o) ==
    /\ ReaderRuns
    /\ last' = Call("close", IF can_close_timestamp(o) THEN "true" ELSE "false",
                    None, "", o)
    /\ UNCHANGED << buffer, offset, fatal >>
    /\ UNCHANGED << is_activated_reader, glob, scannerVars, chan, rx_alive,
                    last_offset, histVars, pureVars,
                    timestampVars, body >>

\* The reader is dropped, and with it the receiver and what is queued.
DropReader ==
    /\ rx_alive
    /\ rx_alive' = FALSE
    /\ chan' = << >>
    /\ UNCHANGED << is_activated_reader, glob, scannerVars, readerVars,
                    last_offset, histVars, pureVars,
                    timestampVars, body >>

(***************************************************************************)
(* ConsistencyInfo: the caller records the offset of a message the reader  *)
(* has returned as Ready.                                                  *)
(***************************************************************************)
RecordOffset(o) ==
    /\ ReaderRuns
    /\ last_offset # o
    /\ last_offset' = o
    /\ UNCHANGED << is_activated_reader, glob, scannerVars, chan, rx_alive,
                    readerVars, histVars, pureVars,
                    timestampVars, body >>

Reader ==
    \/ get_next_message
    \/ \E message \in Delivered : buffer_message(message)
    \/ \E o \in Offsets : CanCloseTimestamp(o)
    \/ \E m \in Delivered : RecordOffset(m.offset)
    \/ DropReader

Next == Scanner \/ Reader

Spec == Init /\ [][Next]_vars

(***************************************************************************)
(* Scheduling.  The runtime runs the scanner task whenever it can take a   *)
(* step (a pending send can once the channel has room), and the scheduler  *)
(* polls the reader on every tick for as long as the reader runs.  The     *)
(* caller does not hand the same message back for ever: again and again a  *)
(* poll finds the slot empty and turns to the channel.                     *)
(***************************************************************************)
Fairness ==
    /\ WF_vars(Scanner)
    /\ WF_vars(get_next_message)
    /\ SF_vars(get_next_message /\ buffer = None)

FairSpec == Spec /\ Fairness

\* The elected scanner against a backend whose every listing call fails,
\* with a reader that keeps polling.
InitListFail ==
    /\ \E pattern \in Globs : new(TRUE, pattern)
    /\ Unregistered
    /\ body = None

NextListFail ==
    \/ ClientOk
    \/ ListErr
    \/ Sleep
    \/ get_next_message
    \/ \E o \in Offsets : CanCloseTimestamp(o)

SpecListFail ==
    /\ InitListFail
    /\ [][NextListFail]_vars
    /\ WF_vars(ClientOk \/ ListErr \/ Sleep)
    /\ WF_vars(get_next_message)

(***************************************************************************)
(* find_prefix and the matcher on their own: a pattern is drawn, its       *)
(* prefix is extracted, and keys are given to the compiled matcher.        *)
(***************************************************************************)
PatAlphabet == { "a", "*", "?", "[", "]", "{", "}", ",", "\\" }
KeyAlphabet == { "a", "b", "*", "?", "[" }

\* The inputs and results of test::glob_prefix.
GlobPrefixTests ==
    { << << "f", "o", "o", "/", "*", "*" >>,
         << "f", "o", "o", "/" >> >>,
      << << "f", "o", "o", "/" >>,
         << "f", "o", "o", "/" >> >>,
      << << >>,
         << >> >>,
      << << "*", "*", "/", "*", ".", "j", "s", "o", "n" >>,
         << >> >>,
      << << "f", "o", "o", "/", "\\", "*", "/", "b", "a", "r", "/", "*", ".", "j", "s", "o", "n" >>,
         << "f", "o", "o", "/", "*", "/", "b", "a", "r", "/" >> >>,
      << << "f", "o", "o", "/", "[", "*", "]", "/", "*", "*" >>,
         << "f", "o", "o", "/" >> >>,
      << << "f", "o", "o", "/", "{", "a", ",", "b", "}" >>,
         << "f", "o", "o", "/" >> >>,
      << << "c", "l", "a", "s", "s", "/", "\\", "[", "*", ".", "j", "s", "o", "n" >>,
         << "c", "l", "a", "s", "s", "/", "[" >> >>,
      << << "c", "l", "a", "s", "s", "/", "\\", "[", "a", "b", "]", "/", "*", "*" >>,
         << "c", "l", "a", "s", "s", "/", "[", "a", "b", "]", "/" >> >>,
      << << "a", "l", "t", "/", "\\", "{", "a", ",", "b", "}", "/", "*", "*" >>,
         << "a", "l", "t", "/", "{", "a", ",", "b", "}", "/" >> >> }

Patterns == SeqsUpTo(PatAlphabet, MaxPatLen) \cup { t[1] : t \in GlobPrefixTests }
Keys == SeqsUpTo(KeyAlphabet, MaxKeyLen)

InitPure(pats) ==
    /\ is_activated_reader = TRUE
    /\ glob \in { Some(p) : p \in pats }
    /\ pc = "find_prefix"
    /\ prefix = None
    /\ continuation_token = None
    /\ allowed_errors = AllowedErrors
    /\ keys = << >>
    /\ next_token = None
    /\ sending = << >>
    /\ activate = FALSE
    /\ chan = << >>
    /\ rx_alive = TRUE
    /\ buffer = None
    /\ offset = 0
    /\ fatal = FALSE
    /\ last = NoCall
    /\ last_offset = 0
    /\ pushed = << >>
    /\ taken = << >>
    /\ fetched = << >>
    /\ wakes = 0
    /\ listed = << >>
    /\ failures = 0
    /\ key = None
    /\ matched = None

\* let prefix = glob.map(|g| find_prefix(g.glob().glob()));
FindPrefix ==
    /\ pc = "find_prefix"
    /\ prefix = None
    /\ prefix' = Some(find_prefix(Unwrap(glob)))
    /\ UNCHANGED << pc, continuation_token, allowed_errors, keys, next_token,
                    sending, activate >>
    /\ UNCHANGED << is_activated_reader, glob, chan, rx_alive, readerVars,
                    last_offset, histVars, pureVars,
                    timestampVars, body >>

\* .filter(|k| glob.map(|g| g.is_match(k)).unwrap_or(true)) on one key
IsMatch(k) ==
    /\ pc = "find_prefix"
    /\ IsSome(prefix)
    /\ key' = Some(k)
    /\ matched' = Some(KeyMatches(glob, k))
    /\ UNCHANGED << is_activated_reader, glob, scannerVars, chan, rx_alive,
                    readerVars, last_offset, histVars, timestampVars, body >>

InitPrefix == InitPure(Patterns) /\ Unregistered /\ body = None
NextPrefix == FindPrefix
SpecPrefix == InitPrefix /\ [][NextPrefix]_vars

InitMatch ==
    /\ InitPure({ p \in SeqsUpTo(PatAlphabet, MaxPatLen) : GlobValid(p) })
    /\ Unregistered
    /\ body = None
NextMatch == FindPrefix \/ \E k \in Keys : IsMatch(k)
SpecMatch == InitMatch /\ [][NextMatch]_vars

(***************************************************************************)
(* activate_source_timestamping on its own: the function is given a source *)
(* id, the consistency mode, the `active` flag and the two shared          *)
(* structures, which other sources of the worker may have written to       *)
(* before.                                                                 *)
(***************************************************************************)
\* The bring-your-own check comes after the `active` check.
activate_source_timestamping_active_first(id, consistency, active) ==
    /\ IF active
       THEN /\ timestamp_data_updates' =
                  [timestamp_data_updates EXCEPT ![id] = Some(RealTime(1))]
            /\ timestamp_metadata_channel' =
                  Append(timestamp_metadata_channel, StartTimestamping(id))
            /\ activation' = Activation(id, consistency, active,
                                        Some("timestamp_metadata_channel"))
       ELSE /\ UNCHANGED << timestamp_data_updates,
                            timestamp_metadata_channel >>
            /\ activation' = Activation(id, consistency, active, None)
    /\ UNCHANGED << is_activated_reader, glob, scannerVars, chan, rx_alive,
                    readerVars, last_offset, histVars, pureVars, body >>

activate_source_timestamping(id, consistency, active) ==
    /\ IF consistency = "BringYourOwn"
       THEN \* log::error!("S3 sources do not currently support BYO ...")
            /\ UNCHANGED << timestamp_data_updates,
                            timestamp_metadata_channel >>
            /\ activation' = Activation(id, consistency, active, None)
       ELSE IF active
       THEN /\ timestamp_data_updates' =
                  [timestamp_data_updates EXCEPT ![id] = Some(RealTime(1))]
            /\ timestamp_metadata_channel' =
                  Append(timestamp_metadata_channel, StartTimestamping(id))
            /\ activation' = Activation(id, consistency, active,
                                        Some("timestamp_metadata_channel"))
       ELSE /\ UNCHANGED << timestamp_data_updates,
                            timestamp_metadata_channel >>
            /\ activation' = Activation(id, consistency, active, None)
    /\ UNCHANGED << is_activated_reader, glob, scannerVars, chan, rx_alive,
                    readerVars, last_offset, histVars, pureVars, body >>

\* What the registry can hold for a source before the call.
Registered == { None, Some(RealTime(1)), Some(BringYourOwn) }

InitTimestamping ==
    /\ \E active \in BOOLEAN : new(active, None)
    /\ timestamp_data_updates \in [Ids -> Registered]
    /\ timestamp_metadata_channel \in { << >>, << StartTimestamping(1) >> }
    /\ activation = NoActivation
    /\ body = None

NextTimestamping ==
    \E id \in Ids, consistency \in Consistencies, active \in BOOLEAN :
        /\ Len(timestamp_metadata_channel) < MaxUpdates
        /\ activate_source_timestamping(id, consistency, active)

SpecTimestamping == InitTimestamping /\ [][NextTimestamping]_vars

(***************************************************************************)
(* download_object on one body: an object was fetched, read_to_end gave    *)
(* its bytes, and the lines are pushed to a reader that polls.             *)
(***************************************************************************)
ByteAlphabet == { "x", "y", NL }
Bodies == SeqsUpTo(ByteAlphabet, MaxBodyLen)

InitSplit ==
    /\ is_activated_reader = TRUE
    /\ glob = None
    /\ pc = "read_body"
    /\ prefix = None
    /\ continuation_token = None
    /\ allowed_errors = AllowedErrors
    /\ keys = << >>
    /\ next_token = None
    /\ sending = << >>
    /\ activate = FALSE
    /\ chan = << >>
    /\ rx_alive = TRUE
    /\ buffer = None
    /\ offset = 0
    /\ fatal = FALSE
    /\ last = NoCall
    /\ last_offset = 0
    /\ pushed = << >>
    /\ taken = << >>
    /\ fetched = << >>
    /\ wakes = 0
    /\ listed = << >>
    /\ failures = 0
    /\ key = None
    /\ matched = None
    /\ Unregistered
    /\ body \in { Some(b) : b \in Bodies }

\* Ok(_): activate = !buf.is_empty(), and buf.split(..) gives the lines to
\* send.
ReadBody ==
    /\ pc = "read_body"
    /\ LET buf == Unwrap(body) IN
       /\ sending' = [i \in 1..Len(Lines(buf)) |-> OkMsg(Lines(buf)[i])]
       /\ activate' = (buf # << >>)
    /\ pc' = "send_lines"
    /\ UNCHANGED << prefix, continuation_token, allowed_errors, keys,
                    next_token >>
    /\ UNCHANGED << is_activated_reader, glob, chan, rx_alive, readerVars,
                    last_offset, histVars, pureVars, timestampVars, body >>

NextSplit == ReadBody \/ SendLine \/ get_next_message

SpecSplit == InitSplit /\ [][NextSplit]_vars

(***************************************************************************)
(* Histories and expectations the properties are stated with.             *)
(***************************************************************************)
\* The success records the reader took from the channel, in order.
Records == SelectSeq(taken, LAMBDA t : t.ok)

\* The lines of each object of the bucket, as the bucket's owner wrote
\* them.
ObjectLines(k) ==
    IF k = K1 THEN << << "x" >>, << "y" >> >>
    ELSE IF k = K2 THEN << << >> >>
    ELSE << << "z" >>, << >> >>

\* The keys the listing calls returned that match the pattern, in the
\* order they were returned.  The backend lists a key when it starts with
\* the prefix asked for.
RECURSIVE MatchingListed(_)
MatchingListed(cursors) ==
    IF cursors = << >> THEN << >>
    ELSE LET page == ListObjectsV2(prefix, Head(cursors)).contents
         IN  SelectSeq(page, LAMBDA k : KeyMatches(glob, k))
                 \o MatchingListed(Tail(cursors))

\* The lines of the objects that were fetched and read, in fetch order.
RECURSIVE FetchedLines(_)
FetchedLines(fs) ==
    IF fs = << >> THEN << >>
    ELSE (IF Head(fs).outcome = "ok" THEN ObjectLines(Head(fs).key) ELSE << >>)
             \o FetchedLines(Tail(fs))

FetchedKeys == [i \in 1..Len(fetched) |-> fetched[i].key]

\* A get_next_message call has just returned this.
Polled(res) == last.op = "poll" /\ last.res = res

(***************************************************************************)
(* C1.  Offset monotonicity: the k-th success record the reader takes from *)
(* the channel is returned with offset exactly k, whatever the scanner     *)
(* pushes, polls and buffer_message calls were interleaved; the counter    *)
(* is the number of records taken so far, so the offsets of newly          *)
(* delivered records have no gap and no repeat, and the counter never      *)
(* decreases.                                                              *)
(***************************************************************************)
C1_OffsetMonotonic ==
    /\ [](/\ \A k \in 1..Len(Records) : Records[k].offset = k
          /\ offset = Len(Records))
    /\ [][offset' >= offset]_vars

\* Three records were delivered, a failure was taken between them and a
\* message was re-delivered.
C1_Witness ==
    /\ offset = 3
    /\ \E i \in 1..Len(taken) : ~taken[i].ok /\ i < Len(taken)
    /\ Polled("Ready")
    /\ Unwrap(last.msg).offset = 1

(***************************************************************************)
(* C2.  Order preservation: the success records the reader returns (not    *)
(* counting re-deliveries) are, in every reachable state, a prefix of the  *)
(* concatenation of the lines of the objects read, object after object in  *)
(* the order the listing calls returned the matching keys and line after   *)
(* line within an object; the keys are fetched in listing order; and once  *)
(* the reader has returned Finished the records are that whole             *)
(* concatenation.  An object whose fetch or read fails has no lines to     *)
(* deliver.                                                                *)
(***************************************************************************)
C2_OrderPreserved ==
    /\ IsPrefix(FetchedKeys, MatchingListed(listed))
    /\ IsPrefix([i \in 1..Len(Records) |-> Records[i].rec], FetchedLines(fetched))
    /\ Polled("Finished") =>
           [i \in 1..Len(Records) |-> Records[i].rec] = FetchedLines(fetched)

\* Both lines of the first object, the empty line of the second and the
\* lines of the third were delivered in that order over two pages, and
\* the reader has seen the end.
C2_Witness ==
    /\ Polled("Finished")
    /\ glob = None
    /\ [i \in 1..Len(Records) |-> Records[i].rec]
           = << << "x" >>, << "y" >>, << >>, << "z" >>, << >> >>

(***************************************************************************)
(* C3.  At most one re-buffered message: a buffer_message call made while  *)
(* the slot is occupied ends in the panic and leaves the held message as   *)
(* it is; the slot never holds more than one message.                      *)
(***************************************************************************)
C3_AtMostOneRebuffer ==
    /\ [](Len(buffer) <= 1)
    /\ [][(IsSome(buffer) /\ last'.op = "buffer" /\ last' # last)
              => (fatal' /\ last'.res = "Panic" /\ buffer' = buffer)]_vars

\* A second message was offered while another was held: the reader
\* panicked and still holds the first.
C3_Witness ==
    /\ fatal
    /\ last.op = "buffer"
    /\ last.res = "Panic"
    /\ IsSome(buffer)
    /\ last.msg # buffer

(***************************************************************************)
(* C4.  Re-delivery: when buffer_message(m) was called on an empty slot    *)
(* and get_next_message is the next call, it returns Ready(m), empties the *)
(* slot, leaves the offset counter as it is and takes nothing from the     *)
(* channel, whatever the channel holds.                                    *)
(***************************************************************************)
C4_Redelivery ==
    [][(last.op = "buffer" /\ last.res = "Ok" /\ last'.op = "poll")
           => /\ last'.res = "Ready"
              /\ last'.msg = last.msg
              /\ buffer' = None
              /\ offset' = offset
              /\ chan' = chan
              /\ taken' = taken]_vars

\* An older message was re-delivered while a failure waits at the head of
\* the channel: the counter is ahead of the message's offset.
C4_Witness ==
    /\ Polled("Ready")
    /\ Unwrap(last.msg).offset < offset
    /\ buffer = None
    /\ chan # << >>
    /\ ~Head(chan).ok

(***************************************************************************)
(* C5.  A worker that is not the elected scanner is a closed, empty        *)
(* source: there is no scanner task, nothing is ever pushed, every         *)
(* get_next_message returns Finished, and can_close_timestamp is true for  *)
(* every offset, also one above the tracked last offset.                   *)
(***************************************************************************)
C5_NonScannerClosed ==
    ~is_activated_reader =>
        /\ pc = "none"
        /\ pushed = << >>
        /\ chan = << >>
        /\ last.op = "poll" => last.res = "Finished"
        /\ \A o \in Offsets : can_close_timestamp(o)
        /\ last.op = "close" => last.res = "true"

\* The non-elected worker was polled and returned Finished; asked now
\* about an offset above the tracked one, it answers true.
C5_Witness ==
    /\ ~is_activated_reader
    /\ Polled("Finished")
    /\ last_offset < offset + 1
    /\ can_close_timestamp(offset + 1)

(***************************************************************************)
(* C8.  Window closing on the elected scanner: can_close_timestamp(o) is   *)
(* true exactly when the tracked last offset is at least o; as the tracker *)
(* only records offsets of messages the reader returned as Ready, it is    *)
(* never true for an offset above the reader's own counter.                *)
(***************************************************************************)
C8_WindowClosing ==
    /\ [](is_activated_reader =>
              \A o \in Offsets : can_close_timestamp(o) => o <= offset)
    /\ [][(is_activated_reader /\ last'.op = "close" /\ last' # last)
              => /\ last'.res = "true" <=> last_offset >= last'.arg
                 /\ last'.res = "true" => last'.arg <= offset]_vars

\* The elected scanner answered true for the offset the tracker holds and
\* false for the next one.
C8_Witness ==
    /\ is_activated_reader
    /\ last.op = "close"
    /\ last.res = "true"
    /\ last.arg = last_offset
    /\ last.arg = 2
    /\ ~can_close_timestamp(3)

(***************************************************************************)
(* C9.  Prefix soundness: every key the compiled pattern matches starts    *)
(* with find_prefix of the pattern text, for every pattern over an         *)
(* alphabet that holds the matcher's metacharacters.                       *)
(***************************************************************************)
C9_PrefixSound ==
    (IsSome(matched) /\ Unwrap(matched)) => StartsWith(Unwrap(key), Unwrap(prefix))

\* The same, for the patterns that hold no `?` at all.
C9_PrefixSoundWithoutQuestionMark ==
    (IsSome(matched) /\ Unwrap(matched)
        /\ \A i \in 1..Len(Unwrap(glob)) : Unwrap(glob)[i] # "?")
    => StartsWith(Unwrap(key), Unwrap(prefix))

\* A pattern with an escaped `*` before a `*` matched a key that starts
\* with the extracted prefix.
C9_Witness ==
    /\ glob = Some(<< "\\", "*", "*" >>)
    /\ prefix = Some(<< "*" >>)
    /\ key = Some(<< "*", "a" >>)
    /\ matched = Some(TRUE)

(***************************************************************************)
(* C10.  Prefix extraction: find_prefix returns the characters of the      *)
(* pattern up to the first unescaped `*`, `[` or `{`, each escaping        *)
(* backslash removed and the character it escapes kept; the empty pattern  *)
(* and a pattern that starts with an unescaped wildcard give the empty     *)
(* prefix, a pattern without unescaped wildcard gives the whole pattern    *)
(* unescaped.  The cases of test::glob_prefix are among the patterns.      *)
(***************************************************************************)
\* The literal prefix of a pattern, read off in one pass over it.
RECURSIVE LiteralPrefix(_)
LiteralPrefix(p) ==
    IF p = << >> THEN << >>
    ELSE IF Head(p) \in { "*", "[", "{" } THEN << >>
    ELSE IF Head(p) = "\\" THEN
        IF Len(p) = 1 THEN << >>
        ELSE << p[2] >> \o LiteralPrefix(SubSeq(p, 3, Len(p)))
    ELSE << Head(p) >> \o LiteralPrefix(Tail(p))

C10_PrefixExtraction ==
    IsSome(prefix) =>
        /\ Unwrap(prefix) = LiteralPrefix(Unwrap(glob))
        /\ \A t \in GlobPrefixTests : Unwrap(glob) = t[1] => Unwrap(prefix) = t[2]
        /\ (Unwrap(glob) = << >> \/ Head(Unwrap(glob)) \in { "*", "[", "{" })
               => Unwrap(prefix) = << >>

\* An escaped `{` is kept without its backslash and the `*` after it ends
\* the prefix.
C10_Witness ==
    /\ glob = Some(<< "\\", "{", "*" >>)
    /\ prefix = Some(<< "{" >>)

(***************************************************************************)
(* C6.  Retry exhaustion ends cleanly: when every listing call fails, the  *)
(* scanner task ends at the failure that uses up the retry budget, it has  *)
(* pushed no message, no poll returns an error or panics, and a reader     *)
(* that keeps polling gets Finished.                                       *)
(***************************************************************************)
C6_RetryExhaustion ==
    /\ [](/\ pc = "done" => failures = AllowedErrors
          /\ failures <= AllowedErrors
          /\ pushed = << >>
          /\ ~Polled("Err")
          /\ ~Polled("Ready")
          /\ ~fatal
          /\ Polled("Finished") => pc = "done")
    /\ <>Polled("Finished")

\* The budget is used up, nothing was pushed and the reader saw the end.
C6_Witness ==
    /\ pc = "done"
    /\ failures = AllowedErrors
    /\ allowed_errors = 0
    /\ pushed = << >>
    /\ Polled("Finished")

(***************************************************************************)
(* C7.  A failed fetch or read of one object does not abort the scan: one  *)
(* failure message is pushed for that key and nothing else, the scanner    *)
(* goes on with the next key, so that a scan that ends at the last page    *)
(* has fetched every matching key listed; the reader is given what was     *)
(* pushed in the order it was pushed, the records of the other keys        *)
(* included; and, the scanner having ended, a reader that keeps polling    *)
(* returns Finished.                                                       *)
(***************************************************************************)
\* What the scanner owes the channel for the fetches it made: the lines of
\* an object read, one failure for an object not fetched or not read.
RECURSIVE Owed(_)
Owed(fs) ==
    IF fs = << >> THEN << >>
    ELSE LET f == Head(fs)
             ls == ObjectLines(f.key)
         IN  (CASE f.outcome = "ok" -> [i \in 1..Len(ls) |-> OkMsg(ls[i])]
                [] f.outcome = "get_err" -> << ErrMsg("Unable to GET object") >>
                [] f.outcome = "read_err" -> << ErrMsg("Unable to read object") >>
                [] f.outcome = "no_body" -> << >>)
             \o Owed(Tail(fs))

\* The messages the reader took, as they were in the channel.
TakenMsgs ==
    [i \in 1..Len(taken) |->
        [ok |-> taken[i].ok, rec |-> taken[i].rec, err |-> taken[i].err]]

SomeFetchFailed ==
    \E i \in 1..Len(fetched) : fetched[i].outcome \in { "get_err", "read_err" }

C7_FailureDoesNotAbort ==
    /\ [](SomeFetchFailed =>
            /\ IsPrefix(pushed, Owed(fetched))
            /\ (rx_alive /\ pc \notin { "send_err", "send_lines" })
                   => pushed = Owed(fetched)
            /\ IsPrefix(FetchedKeys, MatchingListed(listed))
            /\ (pc = "done" /\ failures = 0)
                   => FetchedKeys = MatchingListed(listed)
            /\ IsPrefix(TakenMsgs, pushed)
            /\ Polled("Finished") => TakenMsgs = pushed /\ pushed = Owed(fetched))
    /\ SomeFetchFailed ~> (Polled("Finished") \/ fatal \/ ~rx_alive)

\* Of three keys the second could not be fetched; the
\* records of the first and the third were delivered around the one
\* failure, and the reader has seen the end.
C7_Witness ==
    /\ Polled("Finished")
    /\ [i \in 1..Len(fetched) |-> fetched[i].outcome] = << "ok", "get_err", "ok" >>
    /\ TakenMsgs = << OkMsg(<< "x" >>), OkMsg(<< "y" >>),
                      ErrMsg("Unable to GET object"),
                      OkMsg(<< "z" >>), OkMsg(<< >>) >>
    /\ offset = 4

(***************************************************************************)
(* C11.  Timestamping registration: activate_source_timestamping inserts   *)
(* the RealTime entry for the source id into the registry, appends one     *)
(* StartTimestamping(id) to the metadata channel and returns the channel   *)
(* handle if and only if the consistency mode is not bring-your-own and    *)
(* the `active` flag is set; in every other case it returns no handle and  *)
(* leaves the registry and the metadata channel as they were.              *)
(***************************************************************************)
C11_TimestampingRegistration ==
    [][(\/ activation' # activation
        \/ timestamp_data_updates' # timestamp_data_updates
        \/ timestamp_metadata_channel' # timestamp_metadata_channel)
       => LET id == activation'.id
              registers == /\ activation'.consistency # "BringYourOwn"
                           /\ activation'.active
          IN  /\ activation'.op = "activate_source_timestamping"
              /\ registers <=> activation'.returned # None
              /\ registers =>
                   /\ activation'.returned = Some("timestamp_metadata_channel")
                   /\ timestamp_data_updates'[id] = Some(RealTime(1))
                   /\ \A j \in Ids \ { id } :
                          timestamp_data_updates'[j] = timestamp_data_updates[j]
                   /\ timestamp_metadata_channel' =
                          timestamp_metadata_channel \o << StartTimestamping(id) >>
              /\ ~registers =>
                   /\ timestamp_data_updates' = timestamp_data_updates
                   /\ timestamp_metadata_channel' = timestamp_metadata_channel]_vars

\* The second source was registered by an elected worker in real-time
\* mode: its entry and its update are there, the handle was returned, and
\* the bring-your-own entry of the first source is as it was.
C11_Witness ==
    /\ activation.op = "activate_source_timestamping"
    /\ activation.consistency = "RealTime"
    /\ activation.active
    /\ activation.id = 2
    /\ activation.returned = Some("timestamp_metadata_channel")
    /\ timestamp_data_updates[2] = Some(RealTime(1))
    /\ timestamp_data_updates[1] = Some(BringYourOwn)
    /\ timestamp_metadata_channel = << StartTimestamping(1), StartTimestamping(2) >>

(***************************************************************************)
(* C12.  Wake signal per object: for every object fetched and read, if at  *)
(* least one record of it was pushed then the consumer's wake handle was   *)
(* signalled exactly once for it, after its records were pushed.  While    *)
(* the receiver exists every push succeeds and every object read has at    *)
(* least one record, so the wakes counted are the objects read, less the   *)
(* one whose records are still being pushed.                               *)
(***************************************************************************)
\* The fetches that gave a body, and those that gave a body with bytes.
ObjectsRead == { i \in 1..Len(fetched) : fetched[i].outcome = "ok" }
NonEmptyObjectsRead == { i \in ObjectsRead : Body(fetched[i].key) # << >> }

C12_WakePerObject ==
    rx_alive =>
        wakes = Cardinality(ObjectsRead) - (IF pc = "send_lines" THEN 1 ELSE 0)

\* The same count over the objects whose body has at least one byte; once
\* the receiver is gone a wake may follow a push that failed.
C12_WakePerNonEmptyObject ==
    /\ pc # "send_lines" => wakes = Cardinality(NonEmptyObjectsRead)
    /\ pc = "send_lines" =>
           wakes = Cardinality(NonEmptyObjectsRead) - (IF activate THEN 1 ELSE 0)

\* The object with the empty body was read and its one empty record was
\* pushed and delivered, and the only wake is the one of the object before.
C12_Witness ==
    /\ rx_alive
    /\ pc = "keys"
    /\ [i \in 1..Len(fetched) |-> fetched[i].key] = << K1, K2 >>
    /\ ObjectsRead = { 1, 2 }
    /\ pushed = << OkMsg(<< "x" >>), OkMsg(<< "y" >>), OkMsg(<< >>) >>
    /\ TakenMsgs = pushed
    /\ wakes = 1

(***************************************************************************)
(* C13.  Dropped reader, with a send that waits: if the reader is dropped  *)
(* while the scanner task is still running and has more records to push,   *)
(* the scanner eventually blocks for ever in a push into the channel and   *)
(* never ends.                                                             *)
(***************************************************************************)
\* The scanner is inside a push, and it has something left to push or to
\* fetch.
InPush == pc \in { "send_lines", "send_err" }
HasMoreToPush == tx_alive /\ (sending # << >> \/ keys # << >>)

C13_DroppedReaderBlocksScanner ==
    []((~rx_alive /\ HasMoreToPush) => (<>[]InPush /\ [](pc # "done")))

(***************************************************************************)
(* C13, as the code has it: once the reader is dropped no push waits; a    *)
(* push fails at once and nothing more enters the channel, the remaining   *)
(* lines of the object are skipped, and the scanner goes on until the scan *)
(* ends, at the last page or with the retry budget used up.                *)
(***************************************************************************)
C13_DroppedReaderScanEnds ==
    /\ [](~rx_alive => (CanSend /\ chan = << >>))
    /\ [][~rx_alive => (pushed' = pushed /\ chan' = chan)]_vars
    /\ [][(~rx_alive /\ pc = "send_lines" /\ pc' # pc) => sending' = << >>]_vars
    /\ (~rx_alive /\ tx_alive) ~> (pc = "done")

\* The reader was dropped after the first line of the first object was
\* pushed; the scanner fetched the other objects all the same, pushed
\* nothing more and has ended.
C13_Witness ==
    /\ ~rx_alive
    /\ pc = "done"
    /\ pushed = << OkMsg(<< "x" >>) >>
    /\ Len(fetched) = 3
    /\ \A i \in 1..Len(fetched) : fetched[i].outcome = "ok"

(***************************************************************************)
(* C14.  Backpressure: the channel never holds more than its capacity; a   *)
(* scanner push is not enabled while the channel is full, so nothing is    *)
(* pushed from a full channel until the reader has taken a message out;    *)
(* and get_next_message, on a reader that exists and has not panicked, is  *)
(* enabled in every state, the scanner waiting on a full channel included, *)
(* and ends in one step as Ready, Pending, Finished or an error.           *)
(***************************************************************************)
PollResults == { "Ready", "Pending", "Finished", "Err" }

C14_Backpressure ==
    /\ [](Len(chan) <= ChanCap)
    /\ []((rx_alive /\ Len(chan) = ChanCap)
              => ~ENABLED (ClientErr \/ SendErr \/ SendLine))
    /\ [][Len(chan) = ChanCap => pushed' = pushed]_vars
    /\ [](ReaderRuns => ENABLED get_next_message)
    /\ [][get_next_message
             => (last'.op = "poll" /\ last'.res \in PollResults)]_vars

\* The scanner waits with a line in hand on a full channel, and the reader
\* has just returned a record.
C14_Witness ==
    /\ Len(chan) = ChanCap
    /\ pc = "send_lines"
    /\ sending # << >>
    /\ ~CanSend
    /\ ReaderRuns
    /\ Polled("Ready")

(***************************************************************************)
(* C15.  No loss at close: get_next_message returns Finished only when the *)
(* slot is empty, the channel is empty and the scanner has ended or never  *)
(* existed; by then every message that was pushed has been returned by a   *)
(* poll, in push order; and from then on the channel stays closed and      *)
(* empty, so that every later poll returns Finished unless a message was   *)
(* handed back in between, which is re-delivered first.                    *)
(***************************************************************************)
\* No sender is left and nothing is queued.
Closed == ~tx_alive /\ chan = << >>

C15_NoLossAtClose ==
    /\ [][(get_next_message /\ last'.res = "Finished")
             => (buffer = None /\ Closed /\ TakenMsgs = pushed)]_vars
    /\ [](Polled("Finished")
             => (buffer = None /\ Closed /\ TakenMsgs = pushed))
    /\ [](IsPrefix(TakenMsgs, pushed))
    /\ [][Closed => Closed']_vars
    /\ [][(get_next_message /\ Closed)
             => IF buffer = None THEN last'.res = "Finished"
                ELSE last'.res = "Ready" /\ last'.msg = buffer]_vars

\* The records of the first object and the failure of the second were all
\* returned, the caller has recorded the last offset, and the reader has
\* returned Finished.
C15_Witness ==
    /\ Polled("Finished")
    /\ pushed = << OkMsg(<< "x" >>), OkMsg(<< "y" >>),
                   ErrMsg("Unable to read object") >>
    /\ TakenMsgs = pushed
    /\ buffer = None
    /\ last_offset = 2

(***************************************************************************)
(* C16.  Retry budget: the budget starts at 10, every successful listing   *)
(* call sets it back to 10 and every failed one takes 1 off; while the     *)
(* scanner loop runs it is between 1 and 10, and the scanner ends on       *)
(* listing failures exactly when it reaches zero, which is at the 10th     *)
(* failed listing call in a row, never earlier and never later.            *)
(***************************************************************************)
\* A listing call has just succeeded, or failed.
ListingSucceeded == Len(listed') = Len(listed) + 1
ListingFailed == failures' = failures + 1

C16_RetryBudget ==
    /\ [](pc = "client" => allowed_errors = 10)
    /\ [][ListingSucceeded => (allowed_errors' = 10 /\ failures' = 0)]_vars
    /\ [][ListingFailed => allowed_errors' = allowed_errors - 1]_vars
    /\ [][allowed_errors' # allowed_errors
             => (ListingSucceeded \/ ListingFailed)]_vars
    /\ [](allowed_errors = 10 - failures)
    /\ [](tx_alive => (1 <= allowed_errors /\ allowed_errors <= 10))
    /\ [](allowed_errors = 0 <=> (pc = "done" /\ failures > 0))
    /\ []((pc = "done" /\ failures > 0) => failures = 10)
    /\ [][(ListingFailed /\ pc' = "done") => failures' = 10]_vars
    /\ [][(ListingFailed /\ failures' = 10) => pc' = "done"]_vars

\* The first page was listed and its two objects were fetched, and the
\* scanner ended at the tenth failed call in a row for the second page.
C16_Witness ==
    /\ pc = "done"
    /\ listed = << None >>
    /\ Len(fetched) = 2
    /\ failures = 10
    /\ allowed_errors = 0

(***************************************************************************)
(* C17.  Pagination cursor: a failed listing call leaves the cursor as it  *)
(* is and fetches nothing; the cursor only moves at the end of a page, to  *)
(* the token the response carried; the pages are listed once each, in      *)
(* order, and none after the first page without a token; no key is fetched *)
(* twice and none that fails the pattern; and a scan that ends at the last *)
(* page has fetched every key of the bucket that matches the pattern.      *)
(***************************************************************************)
\* The keys of the bucket that match the pattern, in the bucket's order.
MatchingKeys == SelectSeq(BucketKeys, LAMBDA k : KeyMatches(glob, k))

\* The token the response for a cursor carries.
TokenAfter(cursor) == ListObjectsV2(prefix, cursor).next_continuation_token

\* The scan has ended at a page without a token.
ScanComplete == pc = "done" /\ failures = 0 /\ listed # << >>

\* The cursor moves only from a finished page to the token it carried, and
\* a failed call moves and fetches nothing.
CursorSteps ==
    /\ [][ListingFailed
             => (continuation_token' = continuation_token
                   /\ fetched' = fetched)]_vars
    /\ [][continuation_token' # continuation_token
             => (pc = "keys" /\ keys = << >> /\ next_token # None
                   /\ continuation_token' = next_token /\ pc' = "list")]_vars
    /\ [][(pc = "keys" /\ keys = << >> /\ pc' # pc)
             => IF next_token = None THEN pc' = "done"
                ELSE pc' = "list" /\ continuation_token' = next_token]_vars

\* The pages listed are the first one and then, each time, the one the
\* token of the page before names; the scan ends at the page without token.
PagesInOrder ==
    /\ listed # << >> => listed[1] = None
    /\ \A i \in 1..(Len(listed) - 1) :
           TokenAfter(listed[i]) # None /\ listed[i + 1] = TokenAfter(listed[i])
    /\ ScanComplete => TokenAfter(listed[Len(listed)]) = None

FetchedOnceAndMatching ==
    /\ \A i \in 1..Len(fetched) : KeyMatches(glob, fetched[i].key)
    /\ \A i, j \in 1..Len(fetched) : fetched[i].key = fetched[j].key => i = j

C17_PaginationCursor ==
    /\ CursorSteps
    /\ [](PagesInOrder /\ FetchedOnceAndMatching)
    /\ [](ScanComplete => FetchedKeys = MatchingKeys)

\* The same, with the keys that both match the pattern and start with the
\* prefix the listing calls were made with.
C17_PaginationCursorWithinPrefix ==
    /\ CursorSteps
    /\ [](PagesInOrder /\ FetchedOnceAndMatching)
    /\ [](ScanComplete =>
            FetchedKeys = SelectSeq(MatchingKeys,
                                    LAMBDA k : IsSome(prefix) =>
                                                 StartsWith(k, Unwrap(prefix))))

\* The pattern a? matches two keys of the bucket; the only page listed
\* with the prefix a? was empty and the scan has ended with no key fetched.
C17_Witness ==
    /\ glob = Some(<< "a", "?" >>)
    /\ prefix = Some(<< "a", "?" >>)
    /\ ScanComplete
    /\ listed = << None >>
    /\ fetched = << >>
    /\ MatchingKeys = << K1, K2 >>

(***************************************************************************)
(* C18.  Client-construction failure: when the storage client cannot be    *)
(* built the scanner pushes exactly one failure message, makes no listing  *)
(* and no fetch call, does not retry and ends; the reader returns that one *)
(* failure on one poll, Finished on every poll after it, its offset        *)
(* counter stays 0, and a reader that keeps polling does get there.        *)
(***************************************************************************)
\* The task has ended without any listing call, successful or failed.
ClientFailed == pc = "done" /\ listed = << >> /\ failures = 0

ClientFailure == ErrMsg("Unable to create s3 client")

C18_ClientFailure ==
    /\ [][(pc = "client" /\ pc' = "done")
             => (CanSend /\ (rx_alive => pushed' = << ClientFailure >>))]_vars
    /\ [](ClientFailed =>
            /\ rx_alive => pushed = << ClientFailure >>
            /\ ~rx_alive => pushed \in { << >>, << ClientFailure >> }
            /\ fetched = << >>
            /\ prefix = None
            /\ allowed_errors = 10
            /\ wakes = 0
            /\ offset = 0
            /\ buffer = None
            /\ IsPrefix(TakenMsgs, pushed)
            /\ ~Polled("Ready")
            /\ Polled("Err") => (last.err = "Unable to create s3 client"
                                   /\ TakenMsgs = pushed)
            /\ Polled("Finished") => TakenMsgs = << ClientFailure >>)
    /\ []((\E i \in 1..Len(pushed) : pushed[i] = ClientFailure) => ClientFailed)
    /\ [][ClientFailed => ClientFailed']_vars
    /\ [][(get_next_message /\ ClientFailed)
             => IF taken = << >>
                THEN /\ last'.res = "Err"
                     /\ last'.err = "Unable to create s3 client"
                     /\ Len(taken') = 1
                ELSE last'.res = "Finished" /\ taken' = taken]_vars
    /\ ClientFailed ~> (Polled("Finished") \/ ~rx_alive)

\* The client could not be built; the reader returned the one failure and
\* then Finished, and its counter is still 0.
C18_Witness ==
    /\ ClientFailed
    /\ rx_alive
    /\ pushed = << ClientFailure >>
    /\ TakenMsgs = pushed
    /\ Polled("Finished")
    /\ offset = 0

(***************************************************************************)
(* C19.  Failure propagation in the reader: when a failure is at the head  *)
(* of the channel and the slot is empty, get_next_message returns that     *)
(* failure as the error of the call, takes exactly that one message out,   *)
(* leaves the offset counter and the slot as they are and does not stop    *)
(* the reader; the next poll takes the following message, and a record     *)
(* gets the next consecutive offset.                                       *)
(***************************************************************************)
\* A failure is the next thing a poll takes from the channel.
FailureAtHead == buffer = None /\ chan # << >> /\ ~Head(chan).ok

C19_FailurePropagation ==
    /\ [][(get_next_message /\ FailureAtHead)
             => /\ last' = Call("poll", "Err", None, Head(chan).err, 0)
                /\ chan' = Tail(chan)
                /\ Len(taken') = Len(taken) + 1
                /\ ~taken'[Len(taken')].ok
                /\ taken'[Len(taken')].err = Head(chan).err
                /\ offset' = offset
                /\ buffer' = None
                /\ ReaderRuns']_vars
    /\ []((Polled("Err") /\ rx_alive) => ENABLED get_next_message)
    /\ [][(get_next_message /\ Polled("Err") /\ chan # << >> /\ Head(chan).ok)
             => /\ last'.res = "Ready"
                /\ last'.msg = Some(SourceMessage(offset + 1, Head(chan).rec))
                /\ offset' = offset + 1
                /\ chan' = Tail(chan)]_vars
    /\ [][(get_next_message /\ Polled("Err") /\ chan = << >>)
             => last'.res = IF tx_alive THEN "Pending" ELSE "Finished"]_vars
    /\ [](\A i \in 1..Len(taken) :
              taken[i].ok =>
                  taken[i].offset
                      = Cardinality({ j \in 1..i : taken[j].ok }))

\* Two records, then the failure of the second object, then a record of
\* the third: it was returned with offset 3.
C19_Witness ==
    /\ Len(taken) = 4
    /\ taken[1].ok /\ taken[2].ok /\ ~taken[3].ok /\ taken[4].ok
    /\ taken[3].err = "Unable to GET object"
    /\ Polled("Ready")
    /\ last.msg = Some(SourceMessage(3, << "z" >>))
    /\ offset = 3

(***************************************************************************)
(* C20.  Record splitting: the body read is split on the newline byte into *)
(* records pushed in order; the records joined with single newline bytes   *)
(* are the body, byte for byte, and there is one record more than there    *)
(* are newline bytes in the body, for every body up to MaxBodyLen bytes,   *)
(* the empty body and the bodies that end with a newline among them.       *)
(***************************************************************************)
\* The records joined with one newline byte between two of them.
RECURSIVE Join(_)
Join(recs) ==
    IF recs = << >> THEN << >>
    ELSE IF Len(recs) = 1 THEN recs[1]
    ELSE recs[1] \o << NL >> \o Join(Tail(recs))

Newlines(b) == Cardinality({ i \in 1..Len(b) : b[i] = NL })

\* The records pushed, and those still to be pushed.
PushedRecords == [i \in 1..Len(pushed) |-> pushed[i].rec]
RecordsToPush == [i \in 1..Len(sending) |-> sending[i].rec]

C20_RecordSplitting ==
    (IsSome(body) /\ pc # "read_body") =>
        /\ \A i \in 1..Len(pushed) : pushed[i].ok
        /\ Join(PushedRecords \o RecordsToPush) = Unwrap(body)
        /\ Len(pushed) + Len(sending) = Newlines(Unwrap(body)) + 1
        /\ pc = "keys" =>
               /\ sending = << >>
               /\ Join(PushedRecords) = Unwrap(body)
               /\ Len(pushed) = Newlines(Unwrap(body)) + 1
        /\ IsPrefix(TakenMsgs, pushed)

\* A body of one line, an empty line and the final newline: three records
\* were pushed, the last two empty.
C20_Witness ==
    /\ body = Some(<< "x", NL, NL >>)
    /\ pc = "keys"
    /\ PushedRecords = << << "x" >>, << >>, << >> >>
    /\ wakes = 1

====
